---- MODULE Spec2Model ----
(***************************************************************************)
(* Model of the video extractor App component (subtitle / audio           *)
(* extraction through ffprobe and ffmpeg web workers).                    *)
(*                                                                         *)
(* One action is one browser task: a user event, a timer callback or a    *)
(* worker message handler, together with every promise continuation       *)
(* (microtask) it releases.  Percentages are kept in units of 1/PctScale  *)
(* percent, the estimator's currentProgress in halves of a percent.       *)
(***************************************************************************)
EXTENDS Integers, Sequences, FiniteSets, TLC

\* ------------------------------------------------------------------ bounds

\* streams in one probe document
MaxStreams == 3
\* jobs that may be in flight together when files are dropped at any time
MaxJobs == 2
\* stdout lines (and stderr lines) one worker prints
MaxLines == 1
\* streams in one probe document when jobs run together
UiStreams == 1

\* ------------------------------------------------------- program constants

\* let currentProgress = 10
EstimatorFloor == 10
\* if (currentProgress > 90) currentProgress = 90
\* the estimator is let run up to the full scale
EstimatorCeilingFull == 10 * EstimatorFloor

EstimatorCeiling == 90
\* Math.random() * 8 + 2 for Math.random() = 0 and 0.9375, in halves
TickIncrements == {4, 19}
\* the increment taken when jobs run together: Math.random() = 0.9375
UiIncrements == {19}

validExts == {".mkv", ".mp4", ".avi", ".webm", ".mov"}

\* the extensions /\.(mkv|mp4|avi|webm)$/i removes
strippedExts == {".mkv", ".mp4", ".avi", ".webm"}

ExtractionModes == {"subtitles", "audio-original", "audio-transcription"}

\* ------------------------------------------------------------------ inputs

NoFile == [stem |-> "", ext |-> ""]

\* the files the user submits: a video, a file of another kind, or none
Files ==
  { [stem |-> "movie", ext |-> ".mkv"],
    [stem |-> "notes", ext |-> ".txt"],
    NoFile }

\* a probed stream without its index; "" is an absent tag
StreamShapes ==
  { [codec_type |-> "subtitle", codec_name |-> "subrip", language |-> "en", title |-> "Full"],
    [codec_type |-> "audio", codec_name |-> "eac3", language |-> "", title |-> ""] }

SeqsUpTo(S, n) == UNION { [1..k -> S] : k \in 0..n }

\* ffprobe numbers the streams of a file 0, 1, 2, ...
WithIndex(shapes) ==
  [k \in 1..Len(shapes) |->
     [index |-> k - 1, codec_type |-> shapes[k].codec_type,
      codec_name |-> shapes[k].codec_name,
      language |-> shapes[k].language, title |-> shapes[k].title]]

\* the documents ffprobe may print: one with a streams collection, or "{}"
ProbeDocs(shapes, n) ==
  { [hasStreams |-> TRUE, streams |-> WithIndex(s)] : s \in SeqsUpTo(shapes, n) }
    \cup { [hasStreams |-> FALSE, streams |-> <<>>] }

\* a line a worker prints: a complete JSON document, or other text
JsonLine(doc) == [json |-> TRUE, doc |-> doc]

LogLine == [json |-> FALSE, doc |-> [hasStreams |-> FALSE, streams |-> <<>>]]

\* ---------------------------------------------------------- pure functions

fileName(file) == file.stem \o file.ext

\* file.name.replace(/\.(mkv|mp4|avi|webm)$/i, '')
baseName(file) == IF file.ext \in strippedExts THEN file.stem ELSE fileName(file)

\* validExts.some(ext => fileName.endsWith(ext))
isValid(file) == file.ext \in validExts

\* x || dflt on a tag
OrDefault(x, dflt) == IF x = "" THEN dflt ELSE x

\* parsed.streams?.filter(s => s.codec_type === kind)
StreamsOfKind(parsed, kind) ==
  SelectSeq(parsed.streams, LAMBDA s : s.codec_type = kind)

\* the container is not looked at
needsConversionCodecOnly(file, s) == s.codec_name = "mov_text"

needsConversion(file, s) == file.ext = ".mp4" \/ s.codec_name = "mov_text"

subtitleExt(file, s) ==
  IF needsConversion(file, s) THEN "srt"
  ELSE IF s.codec_name = "subrip" THEN "srt" ELSE s.codec_name

subtitleOutputName(file, s) ==
  baseName(file) \o "_" \o OrDefault(s.language, "unk") \o "_"
    \o OrDefault(s.title, "untitled") \o "." \o subtitleExt(file, s)

\* the group one subtitle stream adds to the argument list
subtitleGroup(file, s) ==
  << "-map", "0:" \o ToString(s.index), "-c:s",
     IF needsConversion(file, s) THEN "srt" ELSE "copy",
     subtitleOutputName(file, s) >>

RECURSIVE subtitleGroups(_, _)
subtitleGroups(file, subtitles) ==
  IF subtitles = <<>> THEN <<>>
  ELSE subtitleGroup(file, Head(subtitles)) \o subtitleGroups(file, Tail(subtitles))

\* the argument list of extractSubtitles
subtitleArgs(file, subtitles) ==
  << "-i", "/data/" \o fileName(file) >> \o subtitleGroups(file, subtitles)

\* the output names of a subtitle invocation, in probe order
subtitleOutputs(file, subtitles) ==
  [k \in 1..Len(subtitles) |->
     [name |-> subtitleOutputName(file, subtitles[k]), stream |-> subtitles[k].index]]

\* "" is a null format
defaultFormats ==
  << [ext |-> "mka", format |-> ""], [ext |-> "mov", format |-> ""],
     [ext |-> "mp4", format |-> ""], [ext |-> "aac", format |-> ""],
     [ext |-> "mp3", format |-> ""] >>

\* the forced-matroska candidate pushed at the end of the list
formatsToTryAppended(s, forTranscription) ==
  IF s.codec_name = "eac3" /\ ~forTranscription
  THEN defaultFormats \o << [ext |-> "mka", format |-> "matroska"] >>
  ELSE defaultFormats

formatsToTry(s, forTranscription) ==
  IF s.codec_name = "eac3" /\ ~forTranscription
  THEN << [ext |-> "mka", format |-> "matroska"] >> \o defaultFormats
  ELSE defaultFormats

\* `${baseName}_${lang}_${i}.${testExt}`, i counting from 0
testName(file, s, i, fmt) ==
  baseName(file) \o "_" \o OrDefault(s.language, "unk") \o "_"
    \o ToString(i) \o "." \o fmt.ext

\* an MP3 encoder asked for where the stream is to be copied
audioCodecArgsEncoding == << "-c:a", "libmp3lame" >>

\* the copy instruction of a cascade candidate
audioCodecArgs == << "-c:a", "copy" >>

\* the argument list of one cascade candidate
candidateArgs(file, s, i, fmt) ==
  << "-i", "/data/" \o fileName(file), "-map", "0:" \o ToString(s.index) >>
    \o audioCodecArgs
    \o (IF fmt.format # "" THEN << "-f", fmt.format >> ELSE <<>>)
    \o << testName(file, s, i, fmt) >>

probeArgs(file) ==
  << "/data/" \o fileName(file), "-print_format", "json", "-show_streams", "-show_format" >>

muxerArgs == << "-muxers" >>

\* the files an ffmpeg run leaves in MEMFS for the outputs it was asked for:
\* an output written twice under one name is one file, holding the later stream
Produce(outputs, size) ==
  LET kept == SelectSeq([k \in 1..Len(outputs) |-> k],
                 LAMBDA k : \A m \in (k + 1)..Len(outputs) : outputs[m].name # outputs[k].name)
  IN [k \in 1..Len(kept) |->
        [name |-> outputs[kept[k]].name, stream |-> outputs[kept[k]].stream, size |-> size]]

\* what data.MEMFS may hold when the tool reports done: nothing, or the outputs
\* with one of the given sizes
MemfsOutcomes(outputs, sizes) == { <<>> } \cup { Produce(outputs, size) : size \in sizes }

\* the output files of the tool are not empty
FileSizes == {1}

\* the tool may also leave files of length zero
AnySizes == {0, 1}

RECURSIVE Gcd(_, _)
Gcd(a, b) == IF b = 0 THEN a ELSE Gcd(b, a % b)

RECURSIVE LcmUpTo(_)
LcmUpTo(n) == IF n <= 1 THEN 1 ELSE (LcmUpTo(n - 1) * n) \div Gcd(LcmUpTo(n - 1), n)

\* progressPercent is kept in units of 1/PctScale percent, so that
\* 10 + (i * 70 / audioStreams.length) is exact
PctScale == LcmUpTo(MaxStreams)

Pct(p) == p * PctScale

\* an entry of that name is kept as it is
zipFileKeepsFirst(entries, f) ==
  IF \E k \in 1..Len(entries) : entries[k].name = f.name
  THEN entries
  ELSE Append(entries, f)

\* zip.file(f.name, f.data): an entry of that name is replaced in place
zipFile(entries, f) ==
  IF \E k \in 1..Len(entries) : entries[k].name = f.name
  THEN [k \in 1..Len(entries) |-> IF entries[k].name = f.name THEN f ELSE entries[k]]
  ELSE Append(entries, f)

RECURSIVE zipFiles(_, _)
zipFiles(entries, files) ==
  IF files = <<>> THEN entries ELSE zipFiles(zipFile(entries, Head(files)), Tail(files))

\* ------------------------------------------------------------------- state

VARIABLES
  status,           \* useState 'idle' | 'processing' | 'success' | 'error'
  progress,         \* useState progress text
  progressPercent,  \* useState progressPercent, in units of 1/PctScale
  mode,             \* useState ExtractionMode
  timeouts,         \* the pending setTimeout callbacks, in the order they were set
  jobs,             \* the processFile calls, by slot
  workers,          \* the runWorker closures that still have a worker, a timer or an interval
  plan              \* the argument lists built for one probe result, with their inputs

appVars == << status, progress, progressPercent, mode, timeouts, jobs, workers >>

vars == << appVars, plan >>

NoPlan == [stage |-> "none", file |-> NoFile, mode |-> "subtitles", streams |-> <<>>,
           issued |-> <<>>]

Slots == 1..MaxJobs

FreeJob ==
  [ pc |-> "free", file |-> NoFile, mode |-> "subtitles", streams |-> <<>>,
    i |-> 0, c |-> 0, allFiles |-> <<>>, zip |-> <<>>, zipName |-> "",
    downloads |-> <<>>, lastPct |-> 0, mono |-> TRUE, probes |-> 0,
    extractions |-> 0, error |-> "" ]

Terminal == {"success", "error"}

InFlight(job) == job.pc \notin (Terminal \cup {"free"})

Init ==
  /\ status = "idle"
  /\ progress = ""
  /\ progressPercent = 0
  /\ mode = "subtitles"
  /\ timeouts = <<>>
  /\ jobs = [j \in Slots |-> FreeJob]
  /\ workers = {}
  /\ plan = NoPlan

\* --------------------------------------------- processFile and its callees
\* A continuation is run on a record k: the job, the React state it sets and
\* the workers it creates.

setProgressPercent(k, v) ==
  [k EXCEPT !.pct = v,
            !.job.mono = k.job.mono /\ v >= k.job.lastPct,
            !.job.lastPct = v]

setProgress(k, text) == [k EXCEPT !.progress = text]

setStatus(k, s) == [k EXCEPT !.status = s]

\* { type: 'run', arguments: args, mounts: mounts }, mounts being empty without a file
RunMessage(file, mounted, args) ==
  [ type |-> "run", arguments |-> args,
    mounts |-> IF mounted
               THEN << [type |-> "WORKERFS", files |-> << file >>, mountpoint |-> "/data"] >>
               ELSE <<>> ]

\* the run message is posted when the worker is created
NewWorkerPostsAtOnce(j, job, path, mounted, args, outputs, onProgress) ==
  [ job |-> j, pc |-> job.pc, i |-> job.i, c |-> job.c,
    path |-> path, mounted |-> mounted, args |-> args, outputs |-> outputs,
    onProgress |-> onProgress,
    interval |-> onProgress /\ path = "ffmpeg",
    currentProgress |-> 2 * EstimatorFloor,
    phase |-> "loading", live |-> TRUE,
    stdout |-> <<>>, stderr |-> <<>>, data |-> <<>>,
    settled |-> "pending", runs |-> 0,
    file |-> job.file, posted |-> << RunMessage(job.file, mounted, args) >> ]

\* new Worker(workerPath) and the closure of runWorker
NewWorker(j, job, path, mounted, args, outputs, onProgress) ==
  [ job |-> j, pc |-> job.pc, i |-> job.i, c |-> job.c,
    path |-> path, mounted |-> mounted, args |-> args, outputs |-> outputs,
    onProgress |-> onProgress,
    interval |-> onProgress /\ path = "ffmpeg",
    currentProgress |-> 2 * EstimatorFloor,
    phase |-> "loading", live |-> TRUE,
    stdout |-> <<>>, stderr |-> <<>>, data |-> <<>>,
    settled |-> "pending", runs |-> 0,
    file |-> job.file, posted |-> <<>> ]

\* await runWorker(...): the job waits at pc for the worker it creates
runWorker(k, j, pc, path, mounted, args, outputs, onProgress) ==
  LET job == [k.job EXCEPT !.pc = pc]
  IN [k EXCEPT !.job = job,
               !.spawn = k.spawn \cup
                 {NewWorker(j, job, path, mounted, args, outputs, onProgress)}]

\* catch (err): setProgress(err.message || 'Processing failed'); setStatus('error')
catch(k, message) ==
  LET m == OrDefault(message, "Processing failed")
  IN setStatus(setProgress([k EXCEPT !.job.pc = "error", !.job.error = m], m), "error")

\* the anchor is built and never clicked
clickMissing(k, kind, name, entries) == k

\* a.download = name; a.click()
click(k, kind, name, entries) ==
  [k EXCEPT !.job.downloads =
     Append(k.job.downloads, [kind |-> kind, name |-> name, entries |-> entries])]

RECURSIVE downloadEach(_, _)
downloadEach(k, files) ==
  IF files = <<>> THEN k
  ELSE downloadEach(click(k, "file", Head(files).name, << Head(files) >>), Tail(files))

\* setProgress('Done!'); setProgressPercent(100); setStatus('success')
finish(k) ==
  setStatus(setProgressPercent(setProgress([k EXCEPT !.job.pc = "success"], "Done!"),
                               Pct(100)), "success")

\* allFiles.length > 1
shouldZip(allFiles) == Len(allFiles) > 1

\* a single file is downloaded directly in subtitle mode too
packageSingleDirect(k, files, isAudio) ==
  IF shouldZip(files)
  THEN LET k1 == setProgressPercent(setProgress(k, "Creating ZIP..."), Pct(95))
       IN [k1 EXCEPT !.job.pc = "zip", !.job.zip = zipFiles(<<>>, files),
                     !.job.zipName = baseName(k.job.file)
                                       \o (IF isAudio THEN "_audio_tracks.zip"
                                                      ELSE "_subtitles.zip")]
  ELSE finish(downloadEach(
         setProgressPercent(setProgress(k, "Downloading files..."), Pct(95)), files))

\* the packaging branch of processFile, up to await zip.generateAsync
package(k, files, isAudio) ==
  IF isAudio
  THEN IF shouldZip(files)
       THEN LET k1 == setProgressPercent(
                        setProgress(k, "Creating ZIP with " \o ToString(Len(files))
                                       \o " audio files..."), Pct(95))
            IN [k1 EXCEPT !.job.pc = "zip", !.job.zip = zipFiles(<<>>, files),
                          !.job.zipName = baseName(k.job.file) \o "_audio_tracks.zip"]
       ELSE finish(downloadEach(
              setProgressPercent(setProgress(k, "Downloading audio files..."), Pct(95)),
              files))
  ELSE LET k1 == setProgressPercent(setProgress(k, "Creating ZIP..."), Pct(95))
       IN [k1 EXCEPT !.job.pc = "zip", !.job.zip = zipFiles(<<>>, files),
                     !.job.zipName = baseName(k.job.file) \o "_subtitles.zip"]

\* one invocation for each of the first n subtitle streams, started together
RECURSIVE perStreamWorkers(_, _, _, _)
perStreamWorkers(k, j, subtitles, n) ==
  IF n = 0 THEN k
  ELSE LET k1 == perStreamWorkers(k, j, subtitles, n - 1)
       IN runWorker([k1 EXCEPT !.job.extractions = k1.job.extractions + 1],
                    j, "subs", "ffmpeg", TRUE,
                    subtitleArgs(k.job.file, << subtitles[n] >>),
                    subtitleOutputs(k.job.file, << subtitles[n] >>), TRUE)

\* extractSubtitles calling the tool once per subtitle stream
extractSubtitlesPerStream(k, j, parsed) ==
  LET subtitles == StreamsOfKind(parsed, "subtitle")
  IN IF Len(subtitles) = 0
     THEN catch(k, "No subtitle tracks found in this video file")
     ELSE perStreamWorkers([setProgressPercent(k, Pct(10)) EXCEPT !.job.streams = subtitles],
                           j, subtitles, Len(subtitles))

extractSubtitles(k, j, parsed) ==
  LET subtitles == StreamsOfKind(parsed, "subtitle")
  IN IF Len(subtitles) = 0
     THEN catch(k, "No subtitle tracks found in this video file")
     ELSE LET k1 == setProgressPercent(
                      setProgress(k, "Extracting " \o ToString(Len(subtitles))
                                     \o " subtitle(s)..."), Pct(10))
              k2 == [k1 EXCEPT !.job.streams = subtitles,
                               !.job.extractions = k.job.extractions + 1]
          IN runWorker(k2, j, "subs", "ffmpeg", TRUE,
                       subtitleArgs(k.job.file, subtitles),
                       subtitleOutputs(k.job.file, subtitles), TRUE)

\* the files are packaged without looking at their number
audioEndUnchecked(k) == package(k, k.job.allFiles, TRUE)

\* the job fails as soon as one stream was skipped
audioEndStrict(k) ==
  IF Len(k.job.allFiles) < Len(k.job.streams)
  THEN catch(k, "Extraction failed - no audio files created")
  ELSE package(k, k.job.allFiles, TRUE)

\* after the stream loop of extractAudio
audioEnd(k) ==
  IF Len(k.job.allFiles) = 0
  THEN catch(k, "Extraction failed - no audio files created")
  ELSE package(k, k.job.allFiles, TRUE)

\* candidate c started without awaiting it, candidate c + 1 started with it
tryFormatUnawaited(k, j, i, c) ==
  LET file == k.job.file
      s == k.job.streams[i + 1]
      formats == formatsToTry(s, k.job.mode = "audio-transcription")
      k1 == runWorker([k EXCEPT !.job.i = i, !.job.c = c,
                                !.job.extractions = k.job.extractions + 1],
                      j, "cascade", "ffmpeg", TRUE, candidateArgs(file, s, i, formats[c]),
                      << [name |-> testName(file, s, i, formats[c]), stream |-> s.index] >>,
                      FALSE)
  IN IF c < Len(formats)
     THEN runWorker([k1 EXCEPT !.job.c = c + 1,
                               !.job.extractions = k1.job.extractions + 1],
                    j, "cascade", "ffmpeg", TRUE, candidateArgs(file, s, i, formats[c + 1]),
                    << [name |-> testName(file, s, i, formats[c + 1]), stream |-> s.index] >>,
                    FALSE)
     ELSE k1

\* one candidate of the cascade for stream i (counted from 0), candidate c
tryFormat(k, j, i, c) ==
  LET file == k.job.file
      s == k.job.streams[i + 1]
      fmt == formatsToTry(s, k.job.mode = "audio-transcription")[c]
      k1 == [k EXCEPT !.job.i = i, !.job.c = c,
                      !.job.extractions = k.job.extractions + 1]
  IN runWorker(k1, j, "cascade", "ffmpeg", TRUE, candidateArgs(file, s, i, fmt),
               << [name |-> testName(file, s, i, fmt), stream |-> s.index] >>, FALSE)

\* the head of the stream loop for stream i, or the end of the loop
audioLoop(k, j, i) ==
  LET n == Len(k.job.streams)
  IN IF i < n
     THEN LET s == k.job.streams[i + 1]
              k1 == setProgressPercent(
                      setProgress(k, "Extracting audio track " \o ToString(i + 1) \o "/"
                                     \o ToString(n) \o " ("
                                     \o OrDefault(s.language, "unk") \o ")..."),
                      Pct(10) + (i * 70 * PctScale) \div n)
          IN tryFormat(k1, j, i, 1)
     ELSE audioEnd(k)

\* the stream is given up at its first failed candidate
nextFormatGivesUp(k, j) == audioLoop(k, j, k.job.i + 1)

\* the candidate after a failed one, or the next stream when none is left
nextFormat(k, j) ==
  LET i == k.job.i
      s == k.job.streams[i + 1]
      formats == formatsToTry(s, k.job.mode = "audio-transcription")
  IN IF k.job.c < Len(formats)
     THEN tryFormat(k, j, i, k.job.c + 1)
     ELSE audioLoop(k, j, i + 1)

\* extractAudio without its check of audioStreams.length
extractAudioUnchecked(k, j, parsed) ==
  LET audioStreams == StreamsOfKind(parsed, "audio")
      k1 == setProgressPercent(
              setProgress(k, "Extracting " \o ToString(Len(audioStreams))
                             \o " audio track(s)..."), Pct(10))
  IN audioLoop([k1 EXCEPT !.job.streams = audioStreams, !.job.allFiles = <<>>], j, 0)

extractAudio(k, j, parsed) ==
  LET audioStreams == StreamsOfKind(parsed, "audio")
  IN IF Len(audioStreams) = 0
     THEN catch(k, "No audio tracks found in this video file")
     ELSE LET label == IF k.job.mode = "audio-transcription"
                       THEN "transcription-ready (original AAC)" ELSE "original quality"
              k1 == setProgressPercent(
                      setProgress(k, "Extracting " \o ToString(Len(audioStreams))
                                     \o " audio track(s) - " \o label \o "..."), Pct(10))
          IN audioLoop([k1 EXCEPT !.job.streams = audioStreams, !.job.allFiles = <<>>], j, 0)

\* the probe invocation of processFile
probe(k, j) ==
  runWorker([k EXCEPT !.job.probes = k.job.probes + 1],
            j, "probe", "ffprobe", TRUE, probeArgs(k.job.file), <<>>, FALSE)

\* runWorker(`${basePath}ffmpeg-worker-mkve.js`, null, ['-muxers'])
checkFFmpegSupport(k, j) ==
  runWorker(k, j, "muxers", "ffmpeg", FALSE, muxerArgs, <<>>, FALSE)

\* processFile up to its first await
processFile(k, j) ==
  LET k1 == setProgressPercent(
              setProgress(setStatus(k, "processing"), "Analyzing video file..."), 0)
  IN IF k.job.mode # "subtitles" THEN checkFFmpegSupport(k1, j) ELSE probe(k1, j)

\* the continuation of the job after the awaited promise is settled;
\* outcome.ok is resolve, otherwise reject with outcome.message
resume(k, j, outcome) ==
  CASE k.job.pc = "muxers" -> probe(k, j)
    [] k.job.pc = "probe" ->
         IF ~outcome.ok THEN catch(k, outcome.message)
         ELSE IF k.job.mode = "subtitles"
              THEN extractSubtitles(k, j, outcome.value)
              ELSE extractAudio(k, j, outcome.value)
    [] k.job.pc = "subs" ->
         IF ~outcome.ok THEN catch(k, outcome.message)
         ELSE IF Len(outcome.value) = 0
              THEN catch(k, "Extraction failed - no subtitle files created")
              ELSE package(k, outcome.value, FALSE)
    [] k.job.pc = "cascade" ->
         IF outcome.ok /\ Len(outcome.value) > 0
         THEN audioLoop([k EXCEPT !.job.allFiles = k.job.allFiles \o outcome.value],
                        j, k.job.i + 1)
         ELSE nextFormat(k, j)
    [] OTHER -> k

\* ----------------------------------------------------------------- actions

\* setTimeout(() => processFile(file, mode), 100)
StartDelay == 100
\* setTimeout(() => { worker.terminate(); ... }, 50)
SettleDelay == 50

\* the timeout of handleFile
StartTimeout(file, m) ==
  [delay |-> StartDelay, kind |-> "start", file |-> file, mode |-> m,
   job |-> 0, pc |-> "", i |-> 0, c |-> 0]

\* the timeout a worker's 'done' or onerror handler sets
SettleTimeout(w, kind) ==
  [delay |-> SettleDelay, kind |-> kind, file |-> NoFile, mode |-> "",
   job |-> w.job, pc |-> w.pc, i |-> w.i, c |-> w.c]

IsOf(t, w) == t.kind # "start" /\ t.job = w.job /\ t.pc = w.pc /\ t.i = w.i /\ t.c = w.c

\* a timeout is not overtaken by one set later with a delay at least as long
MayFire(n) == \A m \in 1..(n - 1) : timeouts[m].delay > timeouts[n].delay

Without(q, n) == [m \in 1..(Len(q) - 1) |-> IF m < n THEN q[m] ELSE q[m + 1]]

Starts == { n \in 1..Len(timeouts) : timeouts[n].kind = "start" }

\* the continuation record of job slot j in the current state
K(j) == [job |-> jobs[j], status |-> status, progress |-> progress,
         pct |-> progressPercent, spawn |-> {}]

\* the state after a continuation k of slot j, over the remaining workers ws
Commit(k, j, ws) ==
  /\ status' = k.status
  /\ progress' = k.progress
  /\ progressPercent' = k.pct
  /\ jobs' = [jobs EXCEPT ![j] = k.job]
  /\ workers' = ws \cup k.spawn

\* a closure is dropped once its worker is terminated and nothing of it is pending
Collect(ws, q) ==
  { w \in ws : w.live \/ w.interval \/ \E n \in 1..Len(q) : IsOf(q[n], w) }

\* what the user is taken to do: with concurrent = FALSE a file is submitted
\* only when no job is running or about to start
MaySubmit(concurrent) ==
  IF concurrent
  THEN Cardinality({j \in Slots : InFlight(jobs[j])}) + Cardinality(Starts) < MaxJobs
  ELSE Starts = {} /\ \A j \in Slots : ~InFlight(jobs[j])

handleFile(file) ==
  IF file # NoFile /\ isValid(file)
  THEN /\ status' = "idle"
       /\ progress' = ""
       /\ progressPercent' = 0
       /\ timeouts' = Append(timeouts, StartTimeout(file, mode))
       /\ UNCHANGED << mode, jobs, workers, plan >>
  ELSE UNCHANGED vars

\* onClick of the drop zone, then onChange of the file input
Click(file, concurrent) ==
  /\ status # "processing"
  /\ MaySubmit(concurrent)
  /\ handleFile(file)

\* onKeyDown (Enter) of the drop zone, then onChange of the file input
KeyDown(file, concurrent) ==
  /\ status # "processing"
  /\ MaySubmit(concurrent)
  /\ handleFile(file)

\* onDrop of the drop zone
Drop(file, concurrent) ==
  /\ MaySubmit(concurrent)
  /\ handleFile(file)

\* onClick of a mode button (disabled while processing)
SetMode(m) ==
  /\ status # "processing"
  /\ m # mode
  /\ mode' = m
  /\ UNCHANGED << status, progress, progressPercent, timeouts, jobs, workers, plan >>

\* the 100 ms timeout of handleFile fires: processFile(file, mode) runs to its first await
StartJob(n) ==
  /\ n \in Starts
  /\ MayFire(n)
  /\ \E j \in Slots :
       /\ ~InFlight(jobs[j]) /\ ~\E w \in workers : w.job = j
       /\ \A m \in Slots : m < j => (InFlight(jobs[m]) \/ \E w \in workers : w.job = m)
       /\ LET job == [FreeJob EXCEPT !.file = timeouts[n].file, !.mode = timeouts[n].mode]
          IN Commit(processFile([K(j) EXCEPT !.job = job], j), j, workers)
  /\ timeouts' = Without(timeouts, n)
  /\ UNCHANGED << mode, plan >>

\* onmessage 'ready': the run message is posted
WorkerReady(w) ==
  /\ w.live /\ w.phase = "loading"
  /\ workers' = (workers \ {w}) \cup {[w EXCEPT !.phase = "running", !.runs = w.runs + 1,
                  !.posted = Append(w.posted, RunMessage(w.file, w.mounted, w.args))]}
  /\ UNCHANGED << status, progress, progressPercent, mode, timeouts, jobs, plan >>

\* the probe's promise is resolved with the first document printed, the worker
\* still running
WorkerStdoutResolves(w, line) ==
  /\ w.live /\ w.phase = "running"
  /\ Len(w.stdout) < MaxLines
  /\ LET w1 == [w EXCEPT !.stdout = Append(w.stdout, line)]
     IN IF w.path = "ffprobe" /\ line.json /\ w.settled = "pending"
        THEN Commit(resume(K(w.job), w.job,
                           [ok |-> TRUE, message |-> "", value |-> line.doc]),
                    w.job, (workers \ {w}) \cup {[w1 EXCEPT !.settled = "resolved"]})
        ELSE /\ workers' = (workers \ {w}) \cup {w1}
             /\ UNCHANGED << status, progress, progressPercent, jobs >>
  /\ UNCHANGED << mode, timeouts, plan >>

\* onmessage 'stdout': stdout += data + '\n'
WorkerStdout(w, line) ==
  /\ w.live /\ w.phase = "running"
  /\ Len(w.stdout) < MaxLines
  /\ workers' = (workers \ {w}) \cup {[w EXCEPT !.stdout = Append(w.stdout, line)]}
  /\ UNCHANGED << status, progress, progressPercent, mode, timeouts, jobs, plan >>

\* onmessage 'stderr': stderr += data + '\n'
WorkerStderr(w, line) ==
  /\ w.live /\ w.phase = "running"
  /\ Len(w.stderr) < MaxLines
  /\ workers' = (workers \ {w}) \cup {[w EXCEPT !.stderr = Append(w.stderr, line)]}
  /\ UNCHANGED << status, progress, progressPercent, mode, timeouts, jobs, plan >>

\* the 'done' handler leaves the interval running
WorkerDoneKeepsInterval(w, memfs) ==
  /\ w.live /\ w.phase = "running"
  /\ LET k == IF w.onProgress THEN setProgressPercent(K(w.job), Pct(100)) ELSE K(w.job)
         w1 == [w EXCEPT !.phase = "finished", !.data = memfs]
     IN Commit(k, w.job, (workers \ {w}) \cup {w1})
  /\ timeouts' = Append(timeouts, SettleTimeout(w, "done"))
  /\ UNCHANGED << mode, plan >>

\* onmessage 'done': the interval is cleared, onProgress?.(100), the 50 ms timeout is set
WorkerDone(w, memfs) ==
  /\ w.live /\ w.phase = "running"
  /\ LET k == IF w.onProgress THEN setProgressPercent(K(w.job), Pct(100)) ELSE K(w.job)
         w1 == [w EXCEPT !.phase = "finished", !.interval = FALSE, !.data = memfs]
     IN Commit(k, w.job, (workers \ {w}) \cup {w1})
  /\ timeouts' = Append(timeouts, SettleTimeout(w, "done"))
  /\ UNCHANGED << mode, plan >>

\* onerror: the interval is cleared, the 50 ms timeout is set
WorkerError(w) ==
  /\ w.live /\ w.phase \in {"loading", "running"}
  /\ workers' = (workers \ {w}) \cup {[w EXCEPT !.interval = FALSE, !.phase = "failed"]}
  /\ timeouts' = Append(timeouts, SettleTimeout(w, "error"))
  /\ UNCHANGED << status, progress, progressPercent, mode, jobs, plan >>

\* JSON.parse(stdout): defined when stdout is one complete document
Parses(stdout) == Len(stdout) = 1 /\ stdout[1].json

JSONparse(stdout) == stdout[1].doc

\* the value is not held at the ceiling
TickUnclamped(w, inc) ==
  /\ w.interval
  /\ w.currentProgress < 2 * EstimatorCeiling
  /\ LET cur == w.currentProgress + inc
         k == setProgressPercent(K(w.job), Pct(cur \div 2))
     IN Commit(k, w.job, (workers \ {w}) \cup {[w EXCEPT !.currentProgress = cur]})
  /\ UNCHANGED << mode, timeouts, plan >>

\* the callback of setInterval: one step of the estimator
Tick(w, inc) ==
  /\ w.interval
  /\ w.currentProgress < 2 * EstimatorCeiling
  /\ LET raised == w.currentProgress + inc
         cur == IF raised > 2 * EstimatorCeiling THEN 2 * EstimatorCeiling ELSE raised
         k == setProgressPercent(K(w.job), Pct(cur \div 2))
     IN Commit(k, w.job, (workers \ {w}) \cup {[w EXCEPT !.currentProgress = cur]})
  /\ UNCHANGED << mode, timeouts, plan >>

\* the timeout's callback without worker.terminate()
terminateMissing(w) == w

\* worker.terminate(): no message of the worker is handled any more, so of the
\* closure only the promise and the pending timeouts still matter
terminate(w) ==
  [w EXCEPT !.live = FALSE, !.phase = "terminated", !.stdout = <<>>, !.stderr = <<>>,
            !.data = <<>>, !.currentProgress = 2 * EstimatorFloor]

\* the callback of a 50 ms timeout: worker.terminate(), then resolve or reject,
\* then the continuation of the job that awaits the promise
TimerFire(n, w) ==
  /\ n \in 1..Len(timeouts)
  /\ IsOf(timeouts[n], w)
  /\ MayFire(n)
  /\ LET kind == timeouts[n].kind
         throws == kind = "done" /\ w.path = "ffprobe" /\ ~Parses(w.stdout)
         settles == w.settled = "pending" /\ ~throws
         outcome == IF kind = "error"
                    THEN [ok |-> FALSE, message |-> "worker error", value |-> <<>>]
                    ELSE [ok |-> TRUE, message |-> "",
                          value |-> IF w.path = "ffprobe" THEN JSONparse(w.stdout)
                                    ELSE w.data]
         w1 == [terminate(w) EXCEPT
                  !.settled = IF settles
                              THEN (IF kind = "error" THEN "rejected" ELSE "resolved")
                              ELSE w.settled]
         q == Without(timeouts, n)
         ws == Collect((workers \ {w}) \cup {w1}, q)
     IN /\ timeouts' = q
        /\ IF settles
           THEN Commit(resume(K(w.job), w.job, outcome), w.job, ws)
           ELSE /\ workers' = ws
                /\ UNCHANGED << status, progress, progressPercent, jobs >>
  /\ UNCHANGED << mode, plan >>

\* zip.generateAsync is done: the archive is downloaded and the job ends
ZipDone(j) ==
  /\ jobs[j].pc = "zip"
  /\ Commit(finish(click(K(j), "zip", jobs[j].zipName, jobs[j].zip)), j, workers)
  /\ UNCHANGED << mode, timeouts, plan >>

\* the documents ffprobe may print, of up to n streams
ProbeLines(n) == { JsonLine(d) : d \in ProbeDocs(StreamShapes, n) }

\* the callbacks of the application's timers, the estimator rising by one of incs
TimerStep(incs) ==
  \/ \E n \in 1..Len(timeouts) : StartJob(n)
  \/ \E w \in workers : \E inc \in incs : Tick(w, inc)
  \/ \E n \in 1..Len(timeouts) : \E w \in workers : TimerFire(n, w)
  \/ \E j \in Slots : ZipDone(j)

\* a worker ends its run: 'done' with files of one of the sizes, or an error
WorkerEndsWith(w, sizes) ==
  \/ \E memfs \in MemfsOutcomes(w.outputs, sizes) : WorkerDone(w, memfs)
  \/ WorkerError(w)

WorkerEnds(w) == WorkerEndsWith(w, FileSizes)

\* the messages of the tools, ffprobe printing a document of up to n streams
WorkerStepWith(n, sizes) ==
  \/ \E w \in workers : WorkerReady(w)
  \/ \E w \in workers : \E line \in ProbeLines(n) : w.path = "ffprobe" /\ WorkerStdout(w, line)
  \/ \E w \in workers : WorkerEndsWith(w, sizes)

WorkerStep(n) == WorkerStepWith(n, FileSizes)

\* the other lines the tools print
WorkerLogs ==
  \/ \E w \in workers : WorkerStdout(w, LogLine)
  \/ \E w \in workers : WorkerStderr(w, LogLine)

\* one file at a time: the user waits for a job to end before the next file
Next ==
  \/ \E f \in Files : Click(f, FALSE)
  \/ \E f \in Files : KeyDown(f, FALSE)
  \/ \E f \in Files : Drop(f, FALSE)
  \/ \E m \in ExtractionModes : SetMode(m)
  \/ TimerStep(TickIncrements)
  \/ WorkerStep(MaxStreams)
  \/ WorkerLogs

Spec == Init /\ [][Next]_vars

\* files are submitted whenever the page accepts them, up to MaxJobs jobs together
NextUI ==
  \/ \E f \in Files : Click(f, TRUE)
  \/ \E f \in Files : KeyDown(f, TRUE)
  \/ \E f \in Files : Drop(f, TRUE)
  \/ \E m \in ExtractionModes : SetMode(m)
  \/ TimerStep(UiIncrements)
  \/ WorkerStep(UiStreams)

SpecUI == Init /\ [][NextUI]_vars

\* one file at a time, the tools leaving files of any length
NextSizes ==
  \/ \E f \in Files : Click(f, FALSE)
  \/ \E f \in Files : KeyDown(f, FALSE)
  \/ \E f \in Files : Drop(f, FALSE)
  \/ \E m \in ExtractionModes : SetMode(m)
  \/ TimerStep(UiIncrements)
  \/ WorkerStepWith(MaxStreams, AnySizes)

SpecSizes == Init /\ [][NextSizes]_vars

\* timers fire; nothing is assumed of the workers
FairSpec == Spec /\ WF_vars(TimerStep(TickIncrements))

\* timers fire, and every worker gets ready and ends its run
LiveSpec ==
  /\ FairSpec
  /\ WF_vars(\E w \in workers : WorkerReady(w))
  /\ WF_vars(\E w \in workers : WorkerEnds(w))

\* ------------------------------------------------ the planning functions alone

\* the containers handleFile accepts
PlanFiles == { [stem |-> "movie", ext |-> e] : e \in validExts }

PlanShapes ==
  { [codec_type |-> "subtitle", codec_name |-> "subrip", language |-> "en", title |-> "Full"],
    [codec_type |-> "subtitle", codec_name |-> "ass", language |-> "", title |-> ""],
    [codec_type |-> "subtitle", codec_name |-> "mov_text", language |-> "en", title |-> ""],
    [codec_type |-> "audio", codec_name |-> "aac", language |-> "en", title |-> ""],
    [codec_type |-> "audio", codec_name |-> "eac3", language |-> "", title |-> "Surround"],
    [codec_type |-> "video", codec_name |-> "h264", language |-> "", title |-> ""] }

\* the candidates of stream number i (from 0) of audioStreams, from candidate c on
RECURSIVE cascadeArgs(_, _, _, _, _)
cascadeArgs(file, forTranscription, audioStreams, i, c) ==
  IF i >= Len(audioStreams) THEN <<>>
  ELSE LET s == audioStreams[i + 1]
           formats == formatsToTry(s, forTranscription)
       IN IF c > Len(formats)
          THEN cascadeArgs(file, forTranscription, audioStreams, i + 1, 1)
          ELSE << [stream |-> s.index, i |-> i, c |-> c, format |-> formats[c],
                   codec_name |-> s.codec_name,
                   args |-> candidateArgs(file, s, i, formats[c])] >>
               \o cascadeArgs(file, forTranscription, audioStreams, i, c + 1)

InitPlan ==
  /\ status = "idle"
  /\ progress = ""
  /\ progressPercent = 0
  /\ mode = "subtitles"
  /\ timeouts = <<>>
  /\ jobs = [j \in Slots |-> FreeJob]
  /\ workers = {}
  /\ \E file \in PlanFiles : \E m \in ExtractionModes :
       \E doc \in ProbeDocs(PlanShapes, MaxStreams) :
         plan = [stage |-> "probed", file |-> file, mode |-> m,
                 streams |-> doc.streams, issued |-> <<>>]

\* the argument list extractSubtitles builds for the probe result
PlanSubtitles ==
  /\ plan.stage = "probed" /\ plan.mode = "subtitles"
  /\ LET subtitles == StreamsOfKind(plan, "subtitle")
     IN plan' = [plan EXCEPT
                   !.stage = "planned",
                   !.issued = IF Len(subtitles) = 0 THEN <<>>
                              ELSE << [stream |-> 0, i |-> 0, c |-> 0,
                                       format |-> [ext |-> "", format |-> ""],
                                       codec_name |-> "",
                                       args |-> subtitleArgs(plan.file, subtitles)] >>]
  /\ UNCHANGED appVars

\* every argument list the cascade of extractAudio can issue for the probe result
PlanAudio ==
  /\ plan.stage = "probed" /\ plan.mode # "subtitles"
  /\ plan' = [plan EXCEPT
                !.stage = "planned",
                !.issued = cascadeArgs(plan.file, plan.mode = "audio-transcription",
                                       StreamsOfKind(plan, "audio"), 0, 1)]
  /\ UNCHANGED appVars

\* App.tsx, the subtitle-only component: file.name.replace(/\.(mkv|mp4)$/i, '')
AppBaseName(file) == IF file.ext \in {".mkv", ".mp4"} THEN file.stem ELSE fileName(file)

\* App.tsx: what the flatMap callback returns for stream s
AppArgsOf(file, s) ==
  << "-i", "/data/" \o fileName(file), "-map", "0:" \o ToString(s.index),
     "-codec", "copy",
     AppBaseName(file) \o "_" \o OrDefault(s.language, "unk") \o "_"
       \o OrDefault(s.title, "untitled") \o "."
       \o (IF s.codec_name = "subrip" THEN "srt" ELSE s.codec_name) >>

\* App.tsx: args = subtitles.flatMap(...)
RECURSIVE AppArgs(_, _)
AppArgs(file, subtitles) ==
  IF subtitles = <<>> THEN <<>>
  ELSE AppArgsOf(file, Head(subtitles)) \o AppArgs(file, Tail(subtitles))

\* the argument list processFile of App.tsx builds for the probe result; its
\* handleFile accepts .mkv and .mp4 files only
PlanSubtitlesApp ==
  /\ plan.stage = "probed" /\ plan.mode = "subtitles"
  /\ plan.file.ext \in {".mkv", ".mp4"}
  /\ LET subtitles == StreamsOfKind(plan, "subtitle")
     IN plan' = [plan EXCEPT
                   !.stage = "planned by App.tsx",
                   !.issued = IF Len(subtitles) = 0 THEN <<>>
                              ELSE << [stream |-> 0, i |-> 0, c |-> 0,
                                       format |-> [ext |-> "", format |-> ""],
                                       codec_name |-> "",
                                       args |-> AppArgs(plan.file, subtitles)] >>]
  /\ UNCHANGED appVars

NextPlan == PlanSubtitles \/ PlanAudio \/ PlanSubtitlesApp

SpecPlan == InitPlan /\ [][NextPlan]_vars

\* ------------------------------------------------- the packaging function alone

\* the names extraction gives its files
ZipNames == {"movie_en_Full.srt", "movie_unk_untitled.ass", "movie_audio_0.mp3"}

\* the file lists handed to packaging: the stream a file came from stands for
\* its bytes
ZipLists ==
  { [k \in 1..Len(l) |-> [name |-> l[k].name, stream |-> k - 1, size |-> l[k].size]] :
      l \in SeqsUpTo([name : ZipNames, size : AnySizes], MaxStreams) }

InitZip ==
  /\ status = "processing"
  /\ progress = "Creating ZIP..."
  /\ progressPercent = Pct(95)
  /\ mode = "subtitles"
  /\ timeouts = <<>>
  /\ jobs = [j \in Slots |-> FreeJob]
  /\ workers = {}
  /\ \E files \in ZipLists : plan = [stage |-> "listed", files |-> files, zip |-> <<>>]

\* const zip = new JSZip(); files.forEach(f => zip.file(f.name, f.data))
ZipAll ==
  /\ plan.stage = "listed"
  /\ plan' = [plan EXCEPT !.stage = "zipped", !.zip = zipFiles(<<>>, plan.files)]
  /\ UNCHANGED appVars

SpecZip == InitZip /\ [][ZipAll]_vars

\* ------------------------------------------------------------------ claims

LiveWorkers == { w \in workers : w.live }

\* C1: at every moment at most one worker is live (created and not yet terminated),
\* over any sequence of file submissions by click, keyboard or drop.
C1_AtMostOneLiveWorker == Cardinality(LiveWorkers) <= 1

\* C2: within one job the values passed to setProgressPercent never decrease,
\* in every mode, the estimator's, the 'done' handler's and the packaging step's included.
C2_ProgressNeverDecreases == \A j \in Slots : jobs[j].mono

IsAudioJob(job) == job.mode # "subtitles"

\* C3: a successful audio job over N streams, none skipped, one file per stream,
\* triggers N direct downloads and no archive when N is 1 or 2, and exactly one
\* archive download of N entries when N >= 3.
C3_AudioPackaging ==
  \A j \in Slots :
    LET job == jobs[j]
        N == Len(job.streams)
        d == job.downloads
    IN (job.pc = "success" /\ IsAudioJob(job) /\ Len(job.allFiles) = N)
       => /\ N \in {1, 2} => /\ Len(d) = N
                             /\ \A n \in 1..Len(d) : d[n].kind = "file"
          /\ N >= 3 => /\ Len(d) = 1
                       /\ d[1].kind = "zip"
                       /\ Len(d[1].entries) = N

\* C4: an invocation whose worker never sends 'done' and never raises an error
\* still ends: its worker is terminated after a bounded wait, so that again and
\* again no worker is live.
C4_SilentWorkerTimesOut == []<>(LiveWorkers = {})

\* C5: every submitted job eventually reaches status 'success' or 'error',
\* provided every worker it creates eventually sends 'done' or raises an error,
\* whatever the workers print.
C5_JobEnds == (status = "processing") ~> (status \in Terminal)

\* the job of worker w awaits w's promise
Awaited(w) ==
  /\ jobs[w.job].pc = w.pc
  /\ jobs[w.job].i = w.i
  /\ jobs[w.job].c = w.c
  /\ w.settled = "pending"

\* C6: every worker is used for exactly one invocation (one run message) and is
\* terminated when the invocation ends, on the 'done' and on the error path,
\* before the result or the error is handed to the caller of runWorker.
C6_WorkerTornDown ==
  \A w \in workers :
    /\ w.runs <= 1
    /\ w.settled # "pending" => ~w.live

\* a job whose probe ended on the 'done' path and whose extraction ended on the
\* error path, with every worker terminated
C6_Witness ==
  \E j \in Slots :
    /\ jobs[j].pc = "error" /\ jobs[j].error = "worker error"
    /\ jobs[j].extractions = 1
    /\ LiveWorkers = {}

\* C7: within one job a worker is created only after the worker of the previous
\* invocation is terminated and its promise settled: the muxer check, the probe,
\* the subtitle extraction and the cascade candidates of a job never overlap.
C7_NoOverlapInJob ==
  \A j \in Slots :
    /\ Cardinality({ w \in LiveWorkers : w.job = j }) <= 1
    /\ \A w \in LiveWorkers : w.job = j => Awaited(w)

\* the second candidate of a cascade runs, the first one's worker being gone
C7_Witness ==
  \E w \in LiveWorkers :
    /\ w.pc = "cascade" /\ w.c = 2 /\ w.phase = "running"
    /\ workers = {w}

WantedKind(m) == IF m = "subtitles" THEN "subtitle" ELSE "audio"

NoTracksMessage(m) ==
  IF m = "subtitles" THEN "No subtitle tracks found in this video file"
  ELSE "No audio tracks found in this video file"

HasNoStream(doc, kind) ==
  ~\E n \in 1..Len(doc.streams) : doc.streams[n].codec_type = kind

\* C8: when the probe result has no stream of the kind the mode asks for, the job
\* ends in error with the no-tracks-found message and issues no extraction invocation.
C8_NoTracksFound ==
  [][\A w \in workers :
       ( /\ w.pc = "probe" /\ w.phase = "finished" /\ Parses(w.stdout)
         /\ jobs[w.job].pc = "probe" /\ jobs'[w.job].pc # "probe"
         /\ HasNoStream(JSONparse(w.stdout), WantedKind(jobs[w.job].mode)) )
       => /\ jobs'[w.job].pc = "error"
          /\ jobs'[w.job].error = NoTracksMessage(jobs[w.job].mode)
          /\ jobs'[w.job].extractions = 0
          /\ status' = "error"
          /\ \A v \in workers' : v.job # w.job]_vars

\* an audio job that ended on a probe result without audio streams
C8_Witness ==
  \E j \in Slots :
    /\ jobs[j].pc = "error" /\ IsAudioJob(jobs[j])
    /\ jobs[j].error = NoTracksMessage(jobs[j].mode)
    /\ jobs[j].extractions = 0
    /\ status = "error"

\* C9: no job both delivers an artifact and fails: a job that ended in error has
\* triggered no download, and a job that ended in success had triggered its
\* download(s) by the time the status became 'success'.
C9_NoPartialSuccess ==
  \A j \in Slots :
    /\ jobs[j].pc = "error" => jobs[j].downloads = <<>>
    /\ jobs[j].pc = "success" => jobs[j].downloads # <<>>
    /\ jobs[j].downloads # <<>> => jobs[j].pc = "success"

\* a successful audio job that delivered its file directly
C9_Witness ==
  \E j \in Slots :
    /\ jobs[j].pc = "success" /\ status = "success"
    /\ Len(jobs[j].downloads) = 1 /\ jobs[j].downloads[1].kind = "file"

\* options of ffmpeg that choose a codec, and options that only an encoder takes
CodecOptions == {"-c", "-c:a", "-c:s", "-c:v", "-codec", "-codec:a", "-acodec"}

EncoderOptions == {"-ar", "-ac", "-b:a", "-ab", "-q:a", "-af", "-filter:a"}

CopyOnly(args) ==
  /\ \E n \in 1..Len(args) :
       /\ args[n] = "-map" /\ n + 3 <= Len(args)
       /\ args[n + 2] = "-c:a" /\ args[n + 3] = "copy"
  /\ \A n \in 1..Len(args) :
       /\ args[n] \in CodecOptions => (n < Len(args) /\ args[n + 1] = "copy")
       /\ args[n] \notin EncoderOptions

CandidatesOf(i) == SelectSeq(plan.issued, LAMBDA e : e.i = i)

\* extension and forced format ("" for none) of the candidates, in order
DefaultOrder == << <<"mka", "">>, <<"mov", "">>, <<"mp4", "">>, <<"aac", "">>, <<"mp3", "">> >>

Eac3Order == << <<"mka", "matroska">> >> \o DefaultOrder

\* candidate e writes an .ext file for stream s, with the format forced or not
IsCandidate(e, s, i, ext, format) ==
  LET n == Len(e.args)
  IN /\ e.args[n] = baseName(plan.file) \o "_" \o OrDefault(s.language, "unk") \o "_"
                      \o ToString(i) \o "." \o ext
     /\ IF format = ""
        THEN \A m \in 1..n : e.args[m] # "-f"
        ELSE e.args[n - 2] = "-f" /\ e.args[n - 1] = format

\* C11: an eac3 stream in audio-original mode is tried as forced-matroska .mka
\* first and as unforced .mka next; for any other codec, or in transcription
\* mode, the candidates are mka, mov, mp4, aac, mp3 in that order, none forced.
C11_CandidateOrder ==
  (plan.stage = "planned" /\ plan.mode # "subtitles") =>
    LET audioStreams == SelectSeq(plan.streams, LAMBDA s : s.codec_type = "audio")
    IN \A i \in 0..(Len(audioStreams) - 1) :
         LET s == audioStreams[i + 1]
             order == IF s.codec_name = "eac3" /\ plan.mode = "audio-original"
                      THEN Eac3Order ELSE DefaultOrder
             tried == CandidatesOf(i)
         IN /\ Len(tried) = Len(order)
            /\ \A c \in 1..Len(order) :
                 /\ tried[c].c = c
                 /\ IsCandidate(tried[c], s, i, order[c][1], order[c][2])

\* the plan of an audio-original job over an eac3 stream and an aac stream
C11_Witness ==
  /\ plan.stage = "planned" /\ plan.mode = "audio-original"
  /\ \E n, m \in 1..Len(plan.issued) :
       /\ plan.issued[n].codec_name = "eac3" /\ plan.issued[n].c = 6
       /\ plan.issued[m].codec_name = "aac" /\ plan.issued[m].c = 5

\* the invocation of worker w raised an error or returned no files
Failed(w) == w.phase = "failed" \/ (w.phase = "finished" /\ Len(w.data) = 0)

\* the number of candidates of audio stream s in mode m
CandidateCount(s, m) == IF s.codec_name = "eac3" /\ m = "audio-original" THEN 6 ELSE 5

\* C12: the cascade of one stream attempts its candidates in list order, each at
\* most once: candidate c + 1 is attempted exactly when the invocation of
\* candidate c raised an error or returned no files, which never ends the job by
\* itself, and no candidate of the stream is attempted after one returned files.
C12_CascadeSteps ==
  [][\A j \in Slots :
       (jobs[j].pc = "cascade" /\ jobs'[j] # jobs[j]) =>
         \E w \in workers :
           /\ w.job = j /\ w.pc = "cascade" /\ w.i = jobs[j].i /\ w.c = jobs[j].c
           /\ w.phase \in {"failed", "finished"}
           /\ LET job == jobs[j]
                  s == job.streams[job.i + 1]
                  last == job.c = CandidateCount(s, job.mode)
                  moved == /\ jobs'[j].pc = "cascade"
                           /\ jobs'[j].extractions = job.extractions + 1
                           /\ \E v \in workers' :
                                /\ v.job = j /\ v.live /\ v.pc = "cascade"
                                /\ v.i = jobs'[j].i /\ v.c = jobs'[j].c
              IN IF Failed(w) /\ ~last
                 THEN /\ moved
                      /\ jobs'[j].i = job.i /\ jobs'[j].c = job.c + 1
                      /\ jobs'[j].allFiles = job.allFiles
                 ELSE /\ jobs'[j].allFiles = job.allFiles \o w.data
                      /\ IF job.i + 1 < Len(job.streams)
                         THEN moved /\ jobs'[j].i = job.i + 1 /\ jobs'[j].c = 1
                         ELSE /\ jobs'[j].pc # "cascade"
                              /\ jobs'[j].extractions = job.extractions
                              /\ \A v \in workers' : v.job = j => ~v.live
                              /\ jobs'[j].pc = "error" => jobs'[j].allFiles = <<>>]_vars

\* a one-stream job that succeeded at its third candidate
C12_Witness ==
  \E j \in Slots :
    /\ jobs[j].pc = "success" /\ IsAudioJob(jobs[j])
    /\ Len(jobs[j].streams) = 1 /\ jobs[j].extractions = 3

\* C13: every file of a delivered artifact (subtitle archive, audio archive or
\* direct download) has non-zero length: an invocation whose output files are
\* all of length zero is not taken as a successful extraction.
C13_NoEmptyFileDelivered ==
  \A j \in Slots :
    \A n \in 1..Len(jobs[j].downloads) :
      \A m \in 1..Len(jobs[j].downloads[n].entries) :
        jobs[j].downloads[n].entries[m].size > 0

\* the audio streams of the job that no collected file belongs to
Skipped(job) ==
  { n \in 1..Len(job.streams) :
      \A m \in 1..Len(job.allFiles) : job.allFiles[m].stream # job.streams[n].index }

\* the fewest invocations that process the first n streams: every candidate of
\* a skipped stream, at least one of any other
RECURSIVE MinAttempts(_, _)
MinAttempts(job, n) ==
  IF n = 0 THEN 0
  ELSE MinAttempts(job, n - 1)
       + (IF n \in Skipped(job) THEN CandidateCount(job.streams[n], job.mode) ELSE 1)

\* C14: an audio stream whose every candidate failed is skipped without failing
\* the job and the remaining streams are still processed; the audio job ends in
\* error, with the extraction-failed message, exactly when every stream was skipped.
C14_SkippedStreams ==
  \A j \in Slots :
    LET job == jobs[j]
        n == Len(job.streams)
    IN (IsAudioJob(job) /\ n > 0 /\ job.pc \in {"zip", "success", "error"}) =>
         /\ job.pc = "error" <=> Skipped(job) = 1..n
         /\ job.pc = "error" => job.error = "Extraction failed - no audio files created"
         /\ job.extractions >= MinAttempts(job, n)
         /\ job.pc = "success" =>
              \A m \in (1..n) \ Skipped(job) :
                \E d \in 1..Len(job.downloads) :
                  \E e \in 1..Len(job.downloads[d].entries) :
                    job.downloads[d].entries[e].stream = job.streams[m].index

\* a two-stream job that skipped its first stream and delivered the second
C14_Witness ==
  \E j \in Slots :
    /\ jobs[j].pc = "success" /\ IsAudioJob(jobs[j])
    /\ Len(jobs[j].streams) = 2 /\ Skipped(jobs[j]) = {1}

\* C15: a subtitle-mode job with at least one subtitle stream issues exactly one
\* probe invocation followed by exactly one extraction invocation, which covers
\* every subtitle stream, whatever their number.
C15_OneExtraction ==
  \A j \in Slots :
    LET job == jobs[j]
    IN (job.mode = "subtitles" /\ job.pc # "free") =>
         /\ job.probes = 1 /\ job.extractions <= 1
         /\ \A w \in workers : w.job = j => w.pc \in {"probe", "subs"}
         /\ \A w \in LiveWorkers :
              (w.job = j /\ w.pc = "subs") =>
                /\ ~\E v \in LiveWorkers : v.job = j /\ v.pc = "probe"
                /\ Len(w.outputs) = Len(job.streams)
         /\ job.extractions = 1 <=> Len(job.streams) > 0
         /\ job.pc \in {"subs", "zip", "success"} => job.extractions = 1

\* a subtitle job over three subtitle streams that ended in success
C15_Witness ==
  \E j \in Slots :
    /\ jobs[j].mode = "subtitles" /\ jobs[j].pc = "success"
    /\ Len(jobs[j].streams) = 3 /\ jobs[j].extractions = 1

\* the output name of the n-th group of a subtitle argument list
GroupName(args, n) == args[2 + 5 * n]

\* C16: within one job no two extraction outputs are given the same output name,
\* for every set of probed streams, streams that share their language and title
\* tags or lack both included.
C16_UniqueOutputNames ==
  plan.stage = "planned" =>
    IF plan.mode = "subtitles"
    THEN \A e \in 1..Len(plan.issued) :
           LET args == plan.issued[e].args
               count == (Len(args) - 2) \div 5
           IN \A a, b \in 1..count : a # b => GroupName(args, a) # GroupName(args, b)
    ELSE \A a, b \in 1..Len(plan.issued) :
           plan.issued[a].i # plan.issued[b].i =>
             plan.issued[a].args[Len(plan.issued[a].args)]
               # plan.issued[b].args[Len(plan.issued[b].args)]

\* C17: on a successful subtitle job the delivered archive has exactly as many
\* entries as the probe reported subtitle streams.
C17_ArchiveEntryCount ==
  \A j \in Slots :
    LET job == jobs[j]
    IN (job.mode = "subtitles" /\ job.pc = "success") =>
         /\ Len(job.downloads) = 1
         /\ Len(job.downloads[1].entries) = Len(job.streams)

\* the n-th group of a subtitle argument list
Group(args, n) == SubSeq(args, 5 * n - 2, 5 * n + 2)

\* the n-th group (map, stream, codec option, instruction, output name) of the
\* argument list of a subtitle plan; App.tsx repeats the input reference in
\* front of every group
PlanGroup(p, n) ==
  LET args == p.issued[1].args
  IN IF p.stage = "planned" THEN Group(args, n) ELSE SubSeq(args, 7 * n - 4, 7 * n)

\* the plan holds exactly one output for every subrip stream, named B_L_T.srt,
\* with the codec instruction Instruction(plan) gives
SubripOutputs(Instruction(_)) ==
  (plan.stage \in {"planned", "planned by App.tsx"} /\ plan.mode = "subtitles") =>
    LET subtitles == SelectSeq(plan.streams, LAMBDA s : s.codec_type = "subtitle")
    IN \A n \in 1..Len(subtitles) :
         subtitles[n].codec_name = "subrip" =>
           LET s == subtitles[n]
               name == baseName(plan.file) \o "_" \o OrDefault(s.language, "unk") \o "_"
                         \o OrDefault(s.title, "untitled") \o ".srt"
               map == "0:" \o ToString(s.index)
           IN /\ Len(plan.issued) = 1
              /\ Len(plan.issued[1].args) \in { 2 + 5 * Len(subtitles), 7 * Len(subtitles) }
              /\ \E option \in CodecOptions :
                   PlanGroup(plan, n) = << "-map", map, option, Instruction(plan), name >>
              /\ \A m \in 1..Len(subtitles) : PlanGroup(plan, m)[2] = map => m = n

DirectCopy(p) == "copy"

CopyUnlessMp4(p) ==
  IF p.stage = "planned" /\ p.file.ext = ".mp4" THEN "srt" ELSE "copy"

\* C18 as stated: for every subrip subtitle stream with language L and title T
\* ('unk' and 'untitled' when absent) and base name B, for every accepted input
\* container, the plan holds exactly one output for the stream, named B_L_T.srt,
\* with a direct-copy codec instruction.
C18_SubripCopied == SubripOutputs(DirectCopy)

\* C18 amended: as stated, the codec instruction being direct copy except in
\* the plan extractSubtitles builds for an .mp4 input, where it is the
\* conversion to srt.
C18_SubripCopiedUnlessMp4 == SubripOutputs(CopyUnlessMp4)

\* the plan for an .mp4 file with a subrip stream
C18_Witness ==
  /\ plan.stage = "planned" /\ plan.mode = "subtitles"
  /\ plan.file.ext = ".mp4"
  /\ \E n \in 1..Len(plan.streams) :
       plan.streams[n].codec_type = "subtitle" /\ plan.streams[n].codec_name = "subrip"
  /\ Len(plan.issued) = 1

\* C19: every successful subtitle job delivers exactly one archive download,
\* named {baseName}_subtitles.zip, and no direct per-file download, whatever the
\* number of extracted files, one included.
C19_SubtitleArchive ==
  \A j \in Slots :
    LET job == jobs[j]
    IN (job.mode = "subtitles" /\ job.pc = "success") =>
         /\ Len(job.downloads) = 1
         /\ job.downloads[1].kind = "zip"
         /\ job.downloads[1].name = baseName(job.file) \o "_subtitles.zip"
         /\ Len(job.downloads[1].entries) >= 1

\* a successful subtitle job that extracted one file
C19_Witness ==
  \E j \in Slots :
    /\ jobs[j].mode = "subtitles" /\ jobs[j].pc = "success" /\ status = "success"
    /\ Len(jobs[j].streams) = 1
    /\ Len(jobs[j].downloads) = 1 /\ Len(jobs[j].downloads[1].entries) = 1

\* C20: no extraction invocation of a job (subtitle extraction or cascade
\* candidate) is started before the job's probe invocation has signalled 'done'
\* and its whole output is parsed: the streams are selected from the complete
\* probe output, and the probe's worker is gone when the extraction starts.
C20_ProbeBeforeExtraction ==
  [][\A j \in Slots :
       /\ (jobs[j].extractions = 0 /\ jobs'[j].extractions > 0) =>
            \E w \in workers :
              /\ w.job = j /\ w.pc = "probe" /\ w.phase = "finished"
              /\ Parses(w.stdout)
              /\ jobs'[j].streams =
                   SelectSeq(JSONparse(w.stdout).streams,
                             LAMBDA s : s.codec_type = WantedKind(jobs[j].mode))
       /\ \A v \in workers' :
            (v.job = j /\ v.pc \in {"subs", "cascade"}) =>
              /\ jobs'[j].probes = 1
              /\ \A u \in workers' : (u.job = j /\ u.pc = "probe") => ~u.live]_vars

\* the extraction worker of a job over two subtitle streams has just been created
C20_Witness ==
  \E w \in LiveWorkers :
    /\ w.pc = "subs" /\ w.phase = "loading"
    /\ Len(jobs[w.job].streams) = 2 /\ jobs[w.job].probes = 1

\* the words of an argument list that are not output names
Options == CodecOptions \cup {"-i", "-map", "-f", "copy", "srt"}

\* C21: the argument list of a subtitle extraction invocation holds the input
\* reference exactly once, followed by one group (map stream-index, codec
\* instruction, output name) per selected subtitle stream, in probe order, for
\* any number of subtitle streams.
C21_OneInputReference ==
  (plan.stage \in {"planned", "planned by App.tsx"} /\ plan.mode = "subtitles") =>
    LET subtitles == SelectSeq(plan.streams, LAMBDA s : s.codec_type = "subtitle")
    IN \A e \in 1..Len(plan.issued) :
         LET args == plan.issued[e].args
         IN /\ Len(plan.issued) = 1
            /\ Cardinality({ m \in 1..Len(args) : args[m] = "-i" }) = 1
            /\ args[1] = "-i" /\ args[2] = "/data/" \o plan.file.stem \o plan.file.ext
            /\ Len(args) = 2 + 5 * Len(subtitles)
            /\ \A n \in 1..Len(subtitles) :
                 /\ args[5 * n - 2] = "-map"
                 /\ args[5 * n - 1] = "0:" \o ToString(subtitles[n].index)
                 /\ args[5 * n] \in CodecOptions
                 /\ args[5 * n + 1] \in {"copy", "srt"}
                 /\ args[5 * n + 2] \notin Options

\* C22: packaging a file list in which two files have the same name yields an
\* archive with a single entry under that name, holding the bytes of the later
\* file in the list; every name of the list has exactly one entry, the last
\* file of that name.
C22_LaterFileWins ==
  plan.stage = "zipped" =>
    LET files == plan.files
        zip == plan.zip
    IN /\ \A k \in 1..Len(files) :
            LET last == CHOOSE m \in k..Len(files) :
                          /\ files[m].name = files[k].name
                          /\ \A n \in (m + 1)..Len(files) : files[n].name # files[k].name
            IN /\ Cardinality({ e \in 1..Len(zip) : zip[e].name = files[k].name }) = 1
               /\ \E e \in 1..Len(zip) : zip[e] = files[last]
       /\ \A e \in 1..Len(zip) : \E k \in 1..Len(files) : zip[e] = files[k]

\* an archive made of a list in which a later file has the name of an earlier one
C22_Witness ==
  /\ plan.stage = "zipped"
  /\ \E k, m \in 1..Len(plan.files) :
       k < m /\ plan.files[k].name = plan.files[m].name
  /\ Len(plan.zip) < Len(plan.files)

\* the invocations that extract: the subtitle extraction and the cascade's candidates
Extracts(w) == w.pc \in {"subs", "cascade"}

\* the same closure of runWorker, in two states
Same(w, v) == w.job = v.job /\ w.pc = v.pc /\ w.i = v.i /\ w.c = v.c /\ w.args = v.args

\* C23: the progress value becomes 100 only in the step that receives the
\* 'done' message of the worker of an extraction invocation, or in the final
\* completion step of a job; a tick of the estimator's timer never produces 100.
C23_HundredOnlyAfterDone ==
  [][(progressPercent' = Pct(100) /\ progressPercent # Pct(100)) =>
       \/ \E w \in workers : \E v \in workers' :
            /\ Same(w, v) /\ Extracts(w)
            /\ w.phase = "running" /\ v.phase = "finished"
       \/ \E j \in Slots : jobs[j].pc # "success" /\ jobs'[j].pc = "success"]_vars

\* the estimator has reached its ceiling, and the 'done' message of a subtitle
\* extraction has set 100 while the job still runs
C23_Witness ==
  \E w \in workers :
    /\ w.pc = "subs" /\ w.phase = "finished"
    /\ jobs[w.job].pc = "subs"
    /\ progressPercent = Pct(100)

\* every tick of an estimator, taking the underlying value (in halves of a
\* percent) from one value to another, reports an integer in [10, 90] that is
\* not below the one before, starts below 90, and raises the value as Raise allows
EstimatorTicks(Raise(_, _)) ==
  \A w \in workers : \A v \in workers' :
    (Same(w, v) /\ v.phase # "terminated" /\ v.currentProgress # w.currentProgress) =>
      /\ Extracts(w) /\ w.interval
      /\ w.currentProgress < 2 * 90
      /\ progressPercent' = Pct(v.currentProgress \div 2)
      /\ v.currentProgress \div 2 \in 10..90
      /\ v.currentProgress \div 2 >= w.currentProgress \div 2
      /\ Raise(w.currentProgress, v.currentProgress)

\* by at least 2 and less than 10
RaiseInRange(from, to) == to - from >= 2 * 2 /\ to - from < 2 * 10

\* by at least 2 and less than 10, or by less up to exactly 90
RaiseInRangeOrToCeiling(from, to) ==
  \/ RaiseInRange(from, to)
  \/ to = 2 * 90 /\ to > from /\ to - from < 2 * 2

\* C24 as stated: every value the estimator's timer reports while an extraction
\* invocation is running is an integer in [10, 90], successive reported values
\* never decrease, each tick raises the underlying value by at least 2 and less
\* than 10, and once the value is 90 no further tick reports anything.
C24_EstimatorTicks == [][EstimatorTicks(RaiseInRange)]_vars

\* C24 amended: as stated, except that a tick that would take the underlying
\* value above 90 sets it to exactly 90, which may raise it by less than 2.
C24_EstimatorTicksClamped == [][EstimatorTicks(RaiseInRangeOrToCeiling)]_vars

\* ticks have brought a running estimator to less than 2 below 90, so that its
\* next tick holds it at 90
C24_Witness ==
  \E w \in workers :
    /\ Extracts(w) /\ w.interval /\ w.phase = "running"
    /\ w.currentProgress > 2 * 90 - 2 * 2 /\ w.currentProgress < 2 * 90
    /\ progressPercent = Pct(w.currentProgress \div 2)
    /\ ENABLED Tick(w, 4)

\* C25: in every invocation the run message, carrying the argument list and the
\* mount together in one message (an empty mount list when no file is given), is
\* posted to the worker only in response to the worker's 'ready' message, never
\* before it, and stdout/stderr messages never cause a run message, a settlement
\* or a teardown.
C25_RunOnlyOnReady ==
  [][/\ \A v \in workers' :
          /\ v.phase = "loading" => v.posted = <<>>
          /\ Len(v.posted) <= 1
          /\ \A n \in 1..Len(v.posted) :
               /\ v.posted[n].type = "run" /\ v.posted[n].arguments = v.args
               /\ Len(v.posted[n].mounts) = (IF v.mounted THEN 1 ELSE 0)
               /\ \A m \in 1..Len(v.posted[n].mounts) :
                    /\ v.posted[n].mounts[m].files = << jobs'[v.job].file >>
                    /\ v.posted[n].mounts[m].mountpoint = "/data"
     /\ \A w \in workers : \A v \in workers' :
          Same(w, v) =>
            /\ v.posted # w.posted =>
                 /\ w.phase = "loading" /\ v.phase = "running"
                 /\ w.stdout = v.stdout /\ w.stderr = v.stderr
            /\ (v.live /\ (v.stdout # w.stdout \/ v.stderr # w.stderr)) =>
                 /\ v.posted = w.posted /\ v.settled = w.settled
                 /\ v.phase = w.phase /\ v.interval = w.interval
                 /\ timeouts' = timeouts /\ jobs' = jobs]_vars

\* a worker given a file was sent its run message when it was ready, and has
\* printed a line since
C25_Witness ==
  \E w \in LiveWorkers :
    /\ w.phase = "running" /\ w.mounted /\ Len(w.stdout) = 1
    /\ w.settled = "pending"
    /\ w.posted = << RunMessage(jobs[w.job].file, TRUE, w.args) >>

\* the extraction step of job j ends in this step
ExtractionEnds(j) ==
  jobs[j].pc \in {"subs", "cascade"} /\ jobs'[j].pc \notin {"subs", "cascade"}

\* the file set the extraction step of job j ends with is empty: the subtitle
\* invocation gave no files, or no audio stream gave any
EndsEmpty(j) ==
  IF jobs[j].mode = "subtitles"
  THEN \E w \in workers : w.job = j /\ w.pc = "subs" /\ Failed(w)
  ELSE Len(jobs'[j].allFiles) = 0

\* C26: if the extraction step of a job ends with an empty file set (the
\* subtitle invocation returned no files, or every audio stream was skipped),
\* the job ends with status 'error' and never 'success', and the packaging step
\* is not entered.
C26_EmptyExtractionFails ==
  [][\A j \in Slots :
       /\ (ExtractionEnds(j) /\ EndsEmpty(j)) =>
            /\ jobs'[j].pc = "error" /\ status' = "error"
            /\ progress' = jobs'[j].error /\ jobs'[j].error # ""
            /\ progressPercent' # Pct(95) /\ jobs'[j].lastPct = jobs[j].lastPct
            /\ jobs'[j].zip = <<>> /\ jobs'[j].downloads = <<>>
       /\ (jobs[j].pc = "error" /\ jobs'[j] # jobs[j]) =>
            /\ jobs'[j].pc \notin {"zip", "success"}
            /\ jobs'[j].downloads = <<>>]_vars

\* an audio job over two streams has ended with an error, all of its
\* candidates having given no file
C26_Witness ==
  \E j \in Slots :
    /\ jobs[j].pc = "error" /\ status = "error"
    /\ jobs[j].mode # "subtitles" /\ Len(jobs[j].streams) = 2
    /\ jobs[j].extractions >= 2 * 5
    /\ jobs[j].error = "Extraction failed - no audio files created"

\* C27: whenever a job is in flight (its processFile has started and has not yet
\* set 'success' or 'error'), the status is 'processing'; the completion of one
\* job never sets the status to 'success' or 'error' while another job is still
\* running, over any sequence of submissions by click, keyboard or drop.
C27_InFlightIsProcessing ==
  \A j \in Slots :
    InFlight(jobs[j]) => status = "processing"

\* C28: once an invocation's worker has sent 'done' or raised an error, the
\* estimator timer of that invocation reports no further value: its interval is
\* cleared, no tick of it can run, and while the worker that sent 'done' is
\* still there the 100 its handler forced stands.
C28_NoTickAfterEnd ==
  \A w \in workers :
    w.phase \in {"finished", "failed", "terminated"} =>
      /\ ~w.interval
      /\ \A inc \in TickIncrements : ~ENABLED Tick(w, inc)
      /\ (w.phase = "finished" /\ w.onProgress) =>
           (progressPercent = Pct(100) /\ jobs[w.job].lastPct = Pct(100))

\* the worker of an extraction whose estimator had reported values has sent
\* 'done': 100 is shown and its timer is cleared
C28_Witness ==
  \E w \in workers :
    /\ Extracts(w) /\ w.phase = "finished" /\ w.onProgress
    /\ w.currentProgress > 2 * EstimatorFloor /\ w.currentProgress < 2 * EstimatorCeiling
    /\ progressPercent = Pct(100)

====
